---------------------------- MODULE Spec2Model ----------------------------
(***************************************************************************)
(* A model of redis-go: the RESP codec (parser and writer), the connection *)
(* loop, the command dispatcher and the shared key-value store with lazy   *)
(* expiry.  A byte is a one-character string, a Go string a sequence of    *)
(* bytes.  Time is counted in milliseconds.                                *)
(***************************************************************************)
EXTENDS Integers, Sequences, FiniteSets, TLC

(***************************************************************************)
(* Bytes and strings                                                       *)
(***************************************************************************)
CR == "\r"
LF == "\n"
\* The zero byte that make([]byte, n) fills a fresh slice with.
NUL == "0x00"

LowerCase ==
  << "a", "b", "c", "d", "e", "f", "g", "h", "i", "j", "k", "l", "m",
     "n", "o", "p", "q", "r", "s", "t", "u", "v", "w", "x", "y", "z" >>
UpperCase ==
  << "A", "B", "C", "D", "E", "F", "G", "H", "I", "J", "K", "L", "M",
     "N", "O", "P", "Q", "R", "S", "T", "U", "V", "W", "X", "Y", "Z" >>
DigitChars == << "0", "1", "2", "3", "4", "5", "6", "7", "8", "9" >>

UpperByte(b) ==
  IF \E i \in 1..26 : LowerCase[i] = b
    THEN UpperCase[CHOOSE i \in 1..26 : LowerCase[i] = b]
    ELSE b

\* A mutant of ToUpper: the string is left as it was typed.
ToUpperIdentity(s) == s

\* strings.ToUpper
ToUpper(s) == [i \in 1..Len(s) |-> UpperByte(s[i])]

IsDigit(b) == \E i \in 1..10 : DigitChars[i] = b
DigitVal(b) == (CHOOSE i \in 1..10 : DigitChars[i] = b) - 1

RECURSIVE DigitsVal(_)
DigitsVal(s) ==
  IF s = <<>> THEN 0
  ELSE 10 * DigitsVal(SubSeq(s, 1, Len(s) - 1)) + DigitVal(s[Len(s)])

\* strconv.Atoi: an optional sign, then one or more decimal digits.
Atoi(s) ==
  LET signed == s # <<>> /\ s[1] \in {"+", "-"}
      body   == IF signed THEN Tail(s) ELSE s
  IN  IF body = <<>> \/ \E i \in 1..Len(body) : ~IsDigit(body[i])
        THEN [ok |-> FALSE, n |-> 0]
        ELSE [ok |-> TRUE,
              n  |-> IF signed /\ s[1] = "-" THEN 0 - DigitsVal(body)
                                             ELSE DigitsVal(body)]

RECURSIVE Itoa(_)
\* fmt's %d
Itoa(n) ==
  IF n < 0 THEN <<"-">> \o Itoa(0 - n)
  ELSE IF n < 10 THEN <<DigitChars[n + 1]>>
  ELSE Itoa(n \div 10) \o <<DigitChars[(n % 10) + 1]>>

\* strings.TrimSuffix(line, "\r\n")
TrimSuffixCRLF(line) ==
  IF Len(line) >= 2 /\ line[Len(line) - 1] = CR /\ line[Len(line)] = LF
    THEN SubSeq(line, 1, Len(line) - 2)
    ELSE line

Zeros(n) == [i \in 1..n |-> NUL]
Min(a, b) == IF a <= b THEN a ELSE b

(***************************************************************************)
(* RESP values                                                             *)
(***************************************************************************)
SimpleString == "+"
Error        == "-"
Integer      == ":"
BulkString   == "$"
Array        == "*"

\* RESPValue{Type, Str, Num, Bulk, Array}; unset fields hold Go's zero values.
RESPValue(type, str, num, bulk, array) ==
  [Type |-> type, Str |-> str, Num |-> num, Bulk |-> bulk, Array |-> array]
ZeroValue == RESPValue("", <<>>, 0, <<>>, <<>>)

(***************************************************************************)
(* The input stream of a connection: a bufio.Reader over a net.Conn.       *)
(*   buf  the bytes the bufio.Reader has buffered and not yet handed out   *)
(*   net  the segments the connection will deliver, one per conn.Read      *)
(*   eof  whether the peer closes the stream after the last segment        *)
(* A read of an open stream with nothing left blocks ("block").            *)
(***************************************************************************)
Stream(buf, net, eof) == [buf |-> buf, net |-> net, eof |-> eof]

\* The size of the buffer that bufio.NewReader gives the reader.
BufSize == 4096

\* bufio.Reader.fill: one read of the connection into the free space of the
\* buffer; what does not fit stays with the connection.
Fill(rd) ==
  LET seg == Head(rd.net)
      n   == Min(BufSize - Len(rd.buf), Len(seg))
  IN  [rd EXCEPT !.buf = @ \o SubSeq(seg, 1, n),
                 !.net = IF n = Len(seg) THEN Tail(@)
                         ELSE <<SubSeq(seg, n + 1, Len(seg))>> \o Tail(@)]

\* bufio.Reader.ReadByte
ReadByte(rd) ==
  IF rd.buf # <<>>
    THEN [st |-> "ok", b |-> Head(rd.buf), rd |-> [rd EXCEPT !.buf = Tail(@)]]
  ELSE IF rd.net # <<>>
    THEN [st |-> "ok", b |-> Head(Fill(rd).buf),
          rd |-> [Fill(rd) EXCEPT !.buf = Tail(@)]]
  ELSE IF rd.eof THEN [st |-> "err", b |-> NUL, rd |-> rd]
  ELSE [st |-> "block", b |-> NUL, rd |-> rd]

RECURSIVE IndexLF(_, _)
\* The index of the first \n of s at or after i, or 0 when there is none.
IndexLF(s, i) ==
  IF i > Len(s) THEN 0 ELSE IF s[i] = LF THEN i ELSE IndexLF(s, i + 1)

RECURSIVE collectFragments(_, _)
\* bufio.Reader.collectFragments: full is what the full buffers read so far
\* held; the buffer is searched, emptied when it is full, and filled again.
collectFragments(rd, full) ==
  LET i == IndexLF(rd.buf, 1)
  IN  IF i > 0
        THEN [st |-> "ok", s |-> full \o SubSeq(rd.buf, 1, i),
              rd |-> [rd EXCEPT !.buf = SubSeq(@, i + 1, Len(@))]]
      ELSE IF Len(rd.buf) >= BufSize
        THEN collectFragments([rd EXCEPT !.buf = <<>>], full \o rd.buf)
      ELSE IF rd.net # <<>> THEN collectFragments(Fill(rd), full)
      ELSE IF rd.eof THEN [st |-> "err", s |-> <<>>, rd |-> [rd EXCEPT !.buf = <<>>]]
      ELSE [st |-> "block", s |-> <<>>, rd |-> rd]

\* bufio.Reader.ReadString('\n'): the bytes up to and including the first \n.
ReadString(rd) == collectFragments(rd, <<>>)

\* The bytes a read hands out when it finds avail to take from: p itself,
\* the bytes read followed by the zero bytes of make([]byte, n).
Copied(avail, n) ==
  SubSeq(avail, 1, Min(n, Len(avail))) \o Zeros(n - Min(n, Len(avail)))
Rest(avail, n) == SubSeq(avail, Min(n, Len(avail)) + 1, Len(avail))

\* bufio.Reader.Read(p) with len(p) = n: what is buffered, up to n bytes;
\* with an empty buffer one read of the connection, straight into p when p
\* is no smaller than the buffer, else into the buffer.
Read(rd, n) ==
  IF n = 0 THEN [st |-> "ok", p |-> <<>>, rd |-> rd]
  ELSE IF rd.buf # <<>>
    THEN [st |-> "ok", p |-> Copied(rd.buf, n),
          rd |-> [rd EXCEPT !.buf = Rest(@, n)]]
  ELSE IF rd.net = <<>>
    THEN [st |-> IF rd.eof THEN "err" ELSE "block", p |-> Zeros(n), rd |-> rd]
  ELSE IF n >= BufSize
    THEN [st |-> "ok", p |-> Copied(Head(rd.net), n),
          rd |-> [rd EXCEPT !.net =
                    IF Rest(Head(rd.net), n) = <<>> THEN Tail(@)
                    ELSE <<Rest(Head(rd.net), n)>> \o Tail(@)]]
  ELSE [st |-> "ok", p |-> Copied(Fill(rd).buf, n),
        rd |-> [Fill(rd) EXCEPT !.buf = Rest(@, n)]]

\* RESPParser.readLine
readLine(rd) ==
  LET r == ReadString(rd)
  IN  [st |-> r.st, line |-> TrimSuffixCRLF(r.s), rd |-> r.rd]

\* The result of a parse: st is "ok", "err" (an error is returned), "panic"
\* (a run-time panic) or "block" (the parser waits for more bytes).
Result(st, val, rd) == [st |-> st, val |-> val, rd |-> rd]

\* RESPParser.parseSimpleString
parseSimpleString(rd) ==
  LET l == readLine(rd)
  IN  IF l.st # "ok" THEN Result(l.st, ZeroValue, l.rd)
      ELSE Result("ok", RESPValue(SimpleString, l.line, 0, <<>>, <<>>), l.rd)

\* RESPParser.parseError
parseError(rd) ==
  LET l == readLine(rd)
  IN  IF l.st # "ok" THEN Result(l.st, ZeroValue, l.rd)
      ELSE Result("ok", RESPValue(Error, l.line, 0, <<>>, <<>>), l.rd)

\* RESPParser.parseInteger
parseInteger(rd) ==
  LET l == readLine(rd)
      a == Atoi(l.line)
  IN  IF l.st # "ok" THEN Result(l.st, ZeroValue, l.rd)
      ELSE IF ~a.ok THEN Result("err", ZeroValue, l.rd)
      ELSE Result("ok", RESPValue(Integer, <<>>, a.n, <<>>, <<>>), l.rd)

\* The two p.reader.ReadByte() calls whose results parseBulkString drops.
SkipByte(r) ==
  IF r.st # "ok" THEN r
  ELSE LET b == ReadByte(r.rd)
       IN  IF b.st = "block" THEN Result("block", r.val, r.rd)
           ELSE Result("ok", r.val, b.rd)

\* RESPParser.parseBulkString
parseBulkString(rd) ==
  LET l == readLine(rd)
      a == Atoi(l.line)
      p == Read(l.rd, a.n)
  IN  IF l.st # "ok" THEN Result(l.st, ZeroValue, l.rd)
      ELSE IF ~a.ok THEN Result("err", ZeroValue, l.rd)
      ELSE IF a.n = -1
        THEN Result("ok", RESPValue(BulkString, <<>>, 0, <<>>, <<>>), l.rd)
      ELSE IF a.n < 0 THEN Result("panic", ZeroValue, l.rd)
      ELSE IF p.st # "ok" THEN Result(p.st, ZeroValue, p.rd)
      ELSE SkipByte(SkipByte(
             Result("ok", RESPValue(BulkString, <<>>, 0, p.p, <<>>), p.rd)))

RECURSIVE Parse(_)
RECURSIVE parseElements(_, _, _)
\* The loop of parseArray: count - Len(done) more values are parsed.
parseElements(rd, count, done) ==
  IF Len(done) >= count
    THEN Result("ok", RESPValue(Array, <<>>, 0, <<>>, done), rd)
  ELSE LET e == Parse(rd)
       IN  IF e.st # "ok" THEN Result(e.st, ZeroValue, e.rd)
           ELSE parseElements(e.rd, count, Append(done, e.val))

\* RESPParser.parseArray
parseArray(rd) ==
  LET l == readLine(rd)
      a == Atoi(l.line)
  IN  IF l.st # "ok" THEN Result(l.st, ZeroValue, l.rd)
      ELSE IF ~a.ok THEN Result("err", ZeroValue, l.rd)
      ELSE IF a.n < 0 THEN Result("panic", ZeroValue, l.rd)
      ELSE parseElements(l.rd, a.n, <<>>)

\* RESPParser.Parse
Parse(rd) ==
  LET t == ReadByte(rd)
  IN  IF t.st # "ok" THEN Result(t.st, ZeroValue, t.rd)
      ELSE IF t.b = CR \/ t.b = LF THEN Parse(t.rd)
      ELSE IF t.b = Array THEN parseArray(t.rd)
      ELSE IF t.b = BulkString THEN parseBulkString(t.rd)
      ELSE IF t.b = SimpleString THEN parseSimpleString(t.rd)
      ELSE IF t.b = Error THEN parseError(t.rd)
      ELSE IF t.b = Integer THEN parseInteger(t.rd)
      ELSE Result("err", ZeroValue, t.rd)

(***************************************************************************)
(* RESPWriter: each Write* call writes one frame and flushes it.           *)
(***************************************************************************)
CRLF == <<CR, LF>>
\* RESPWriter.WriteSimpleString
WriteSimpleString(s) == <<"+">> \o s \o CRLF
\* RESPWriter.WriteError
WriteError(msg) == <<"-">> \o msg \o CRLF
\* RESPWriter.WriteBulkString
WriteBulkString(s) == <<"$">> \o Itoa(Len(s)) \o CRLF \o s \o CRLF
\* RESPWriter.WriteInteger
WriteInteger(num) == <<":">> \o Itoa(num) \o CRLF
\* RESPWriter.WriteNullBulkString
WriteNullBulkString == <<"$", "-", "1", "\r", "\n">>

(***************************************************************************)
(* The reply texts of server.go and connection.go                          *)
(***************************************************************************)
MsgPong == <<"P", "O", "N", "G">>
MsgOK == <<"O", "K">>
MsgExpectedArray ==
  <<"e", "x", "p", "e", "c", "t", "e", "d", " ", "a", "r", "r", "a", "y">>
MsgInvalidArgType ==
  <<"i", "n", "v", "a", "l", "i", "d", " ", "a", "r", "g", "u", "m", "e", "n",
    "t", " ", "t", "y", "p", "e">>
MsgEmptyCommand ==
  <<"e", "m", "p", "t", "y", " ", "c", "o", "m", "m", "a", "n", "d">>
MsgArityPre ==
  <<"w", "r", "o", "n", "g", " ", "n", "u", "m", "b", "e", "r", " ", "o", "f",
    " ", "a", "r", "g", "u", "m", "e", "n", "t", "s", " ", "f", "o", "r", " ",
    "'">>
MsgArityPost == <<"'", " ", "c", "o", "m", "m", "a", "n", "d">>
MsgEchoArity == MsgArityPre \o <<"e", "c", "h", "o">> \o MsgArityPost
MsgSetArity == MsgArityPre \o <<"s", "e", "t">> \o MsgArityPost
MsgGetArity == MsgArityPre \o <<"g", "e", "t">> \o MsgArityPost
MsgTTLArity == MsgArityPre \o <<"t", "t", "l">> \o MsgArityPost
MsgSyntax == <<"s", "y", "n", "t", "a", "x", " ", "e", "r", "r", "o", "r">>
MsgNotInt ==
  <<"v", "a", "l", "u", "e", " ", "i", "s", " ", "n", "o", "t", " ", "a", "n",
    " ", "i", "n", "t", "e", "g", "e", "r", " ", "o", "r", " ", "o", "u", "t",
    " ", "o", "f", " ", "r", "a", "n", "g", "e">>
\* fmt.Sprintf("unknown command '%s'", command)
MsgUnknown(command) ==
  <<"u", "n", "k", "n", "o", "w", "n", " ", "c", "o", "m", "m", "a", "n", "d",
    " ", "'">> \o command \o <<"'">>

PING == <<"P", "I", "N", "G">>
ECHO == <<"E", "C", "H", "O">>
SET == <<"S", "E", "T">>
GET == <<"G", "E", "T">>
TTL == <<"T", "T", "L">>
EX == <<"E", "X">>
PX == <<"P", "X">>

(***************************************************************************)
(* Time: time.Duration and time.Time counted in milliseconds               *)
(***************************************************************************)
Millisecond == 1
Second == 1000

\* A *time.Time: Nil, or <<t>> pointing to the time t.
Nil == <<>>
Ptr(t) == <<t>>

(***************************************************************************)
(* The store: map[string]KeyValue                                          *)
(***************************************************************************)
KeyValue(value, expiresAt) == [Value |-> value, ExpiresAt |-> expiresAt]
ZeroKeyValue == KeyValue(<<>>, Nil)
EmptyMap == [k \in {} |-> ZeroKeyValue]

\* m[key] = kv
MapSet(m, key, kv) ==
  [k \in DOMAIN m \cup {key} |-> IF k = key THEN kv ELSE m[k]]
\* delete(m, key)
MapDelete(m, key) == [k \in DOMAIN m \ {key} |-> m[k]]
\* kv, exists := m[key]
MapGet(m, key) ==
  IF key \in DOMAIN m THEN [kv |-> m[key], exists |-> TRUE]
  ELSE [kv |-> ZeroKeyValue, exists |-> FALSE]

\* RedisServer.isExpired, with t the reading of time.Now()
isExpired(m, key, t) ==
  /\ key \in DOMAIN m
  /\ m[key].ExpiresAt # Nil
  /\ t > m[key].ExpiresAt[1]

\* RedisServer.cleanupExpired
cleanupExpired(m, key, t) ==
  IF isExpired(m, key, t) THEN MapDelete(m, key) ELSE m

(***************************************************************************)
(* The command handlers up to their first use of the store.  An outcome    *)
(* names where the connection goes next, the frames written on the way,    *)
(* and the expiry a SET computed.                                          *)
(***************************************************************************)
Outcome(pc, reply, expiresAt) ==
  [pc |-> pc, reply |-> reply, expiresAt |-> expiresAt]
\* A mutant of Replied: an Error reply ends the connection.
RepliedClosingOnError(frame) ==
  Outcome(IF frame[1] = "-" THEN "closed" ELSE "parse", <<frame>>, Nil)

Replied(frame) == Outcome("parse", <<frame>>, Nil)

\* A mutant of PingHandler: nothing is written.
PingHandlerSilent(args) == Outcome("parse", <<>>, Nil)

\* PingHandler.Handle
PingHandler(args) == Replied(WriteSimpleString(MsgPong))

\* EchoHandler.Handle
EchoHandler(args) ==
  IF Len(args) < 2 THEN Replied(WriteError(MsgEchoArity))
  ELSE Replied(WriteBulkString(args[2]))

RECURSIVE SetOptions(_, _, _, _)
\* The EX/PX loop of SetHandler.Handle; args[i] is the option looked at
\* (i counts from 1, Go's i from 0) and t the reading of time.Now().
SetOptions(args, i, expiresAt, t) ==
  IF i > Len(args) THEN Outcome("set_lock", <<>>, expiresAt)
  ELSE IF i + 1 > Len(args) THEN Replied(WriteError(MsgSyntax))
  ELSE LET option == ToUpper(args[i])
           a      == Atoi(args[i + 1])
       IN  IF option = EX
             THEN IF ~a.ok \/ a.n <= 0 THEN Replied(WriteError(MsgNotInt))
                  ELSE SetOptions(args, i + 2, Ptr(t + a.n * Second), t)
           ELSE IF option = PX
             THEN IF ~a.ok \/ a.n <= 0 THEN Replied(WriteError(MsgNotInt))
                  ELSE SetOptions(args, i + 2, Ptr(t + a.n * Millisecond), t)
           ELSE Replied(WriteError(MsgSyntax))

\* A mutant of SetHandler: the options are not looked at.
SetHandlerIgnoringOptions(args, t) ==
  IF Len(args) < 3 THEN Replied(WriteError(MsgSetArity))
  ELSE Outcome("set_lock", <<>>, Nil)

\* SetHandler.Handle, to the point where it takes the lock
SetHandler(args, t) ==
  IF Len(args) < 3 THEN Replied(WriteError(MsgSetArity))
  ELSE SetOptions(args, 4, Nil, t)

\* GetHandler.Handle, to the point where it takes the lock
GetHandler(args) ==
  IF Len(args) # 2 THEN Replied(WriteError(MsgGetArity))
  ELSE Outcome("get_lock", <<>>, Nil)

\* TTLHandler.Handle, to the point where it takes the lock
TTLHandler(args) ==
  IF Len(args) # 2 THEN Replied(WriteError(MsgTTLArity))
  ELSE Outcome("ttl_lock", <<>>, Nil)

\* The command name HandleCommand looks up
CommandName(cmd) == ToUpper(cmd[1])

\* RedisServer.HandleCommand
HandleCommand(cmd, t) ==
  IF Len(cmd) = 0 THEN Replied(WriteError(MsgEmptyCommand))
  ELSE LET command == CommandName(cmd)
       IN  IF command = PING THEN PingHandler(cmd)
           ELSE IF command = ECHO THEN EchoHandler(cmd)
           ELSE IF command = SET THEN SetHandler(cmd, t)
           ELSE IF command = GET THEN GetHandler(cmd)
           ELSE IF command = TTL THEN TTLHandler(cmd)
           ELSE Replied(WriteError(MsgUnknown(command)))

\* A mutant of extractArgs: elements of any type are taken as arguments.
extractArgsOfAnyType(value) ==
  [ok |-> TRUE,
   args |-> [i \in 1..Len(value.Array) |->
               IF value.Array[i].Type = BulkString
                 THEN value.Array[i].Bulk ELSE value.Array[i].Str]]

\* Connection.extractArgs: the arguments, or an error reply and nil
extractArgs(value) ==
  IF \A i \in 1..Len(value.Array) :
       value.Array[i].Type \in {BulkString, SimpleString}
    THEN [ok |-> TRUE,
          args |-> [i \in 1..Len(value.Array) |->
                      IF value.Array[i].Type = BulkString
                        THEN value.Array[i].Bulk ELSE value.Array[i].Str]]
    ELSE [ok |-> FALSE, args |-> <<>>]

\* A mutant of Seconds: the seconds are rounded up.
SecondsRoundedUp(remaining) == (remaining + Second - 1) \div Second

\* int(remaining.Seconds()): whole seconds, truncated toward zero
Seconds(remaining) ==
  IF remaining >= 0 THEN remaining \div Second
  ELSE 0 - ((0 - remaining) \div Second)

(***************************************************************************)
(* State                                                                   *)
(***************************************************************************)
VARIABLES
  data,       \* RedisServer.data
  mutex,      \* RedisServer.mutex (only Lock and Unlock are ever called on it):
              \* 0 when free, else the connection holding it
  now,        \* the clock read by time.Now()
  crashed,    \* the process has ended in a run-time panic
  pc,         \* where each connection's goroutine stands
  rd,         \* each connection's input stream (Connection.parser)
  out,        \* the frames each connection's writer has flushed, in order
  args,       \* the command a connection is handling
  expiresAt,  \* SetHandler.Handle's local expiresAt
  kv,         \* GetHandler/TTLHandler's local kv
  exists,     \* GetHandler/TTLHandler's local exists
  log,        \* history: the top-level values each connection has decoded
  lastSet,    \* history: per key, the SET whose store was executed last
  obs,        \* history: the replied no-expiry SET a GET/TTL was dispatched after
  seen        \* history: the SET whose entry a GET/TTL found in the map, and when

vars == << data, mutex, now, crashed, pc, rd, out, args, expiresAt, kv, exists,
           log, lastSet, obs, seen >>

Conns == {1, 2}
\* The clock moves by half a second or a second at a time, and stops after
\* MaxTicks half seconds.
MaxTicks == 3
TickSteps == {Second \div 2, Second}

QueryPcs ==
  { "get_lock", "get_cs", "get_reply", "ttl_lock", "ttl_cs", "ttl_check",
    "ttl_lock2", "ttl_cs2", "ttl_reply2" }

Last(s) == s[Len(s)]
Key(c) == args[c][2]

(***************************************************************************)
(* Connection.Handle: one pass of the loop, up to the handler's first      *)
(* use of the store                                                        *)
(***************************************************************************)
\* Parse fails: the error is printed, the connection closed.
ConnParseError(c) ==
  /\ ~crashed /\ pc[c] = "parse"
  /\ LET r == Parse(rd[c])
     IN  /\ r.st = "err"
         /\ rd' = [rd EXCEPT ![c] = r.rd]
  /\ pc' = [pc EXCEPT ![c] = "closed"]
  /\ UNCHANGED << data, mutex, now, crashed, out, args, expiresAt, kv, exists,
                  log, lastSet, obs, seen >>

\* make() panics in the parser: no goroutine recovers, the process ends.
ConnPanic(c) ==
  /\ ~crashed /\ pc[c] = "parse"
  /\ LET r == Parse(rd[c])
     IN  /\ r.st = "panic"
         /\ rd' = [rd EXCEPT ![c] = r.rd]
  /\ crashed' = TRUE
  /\ pc' = [d \in Conns |-> "dead"]
  /\ UNCHANGED << data, mutex, now, out, args, expiresAt, kv, exists,
                  log, lastSet, obs, seen >>

\* The value is no array, or extractArgs finds an element that is no string.
ConnReject(c) ==
  /\ ~crashed /\ pc[c] = "parse"
  /\ LET r == Parse(rd[c])
     IN  /\ r.st = "ok"
         /\ r.val.Type # Array \/ ~extractArgs(r.val).ok
         /\ rd' = [rd EXCEPT ![c] = r.rd]
         /\ log' = [log EXCEPT ![c] = Append(@, r.val)]
         /\ out' = [out EXCEPT ![c] =
                      Append(@, IF r.val.Type # Array
                                  THEN WriteError(MsgExpectedArray)
                                  ELSE WriteError(MsgInvalidArgType))]
  /\ obs' = [obs EXCEPT ![c] = <<>>]
  /\ seen' = [seen EXCEPT ![c] = <<>>]
  /\ UNCHANGED << data, mutex, now, crashed, pc, args, expiresAt, kv, exists,
                  lastSet >>

\* The replied SET without expiry that stands for key, if the last SET
\* executed on key is one.
Standing(key) ==
  IF /\ key \in DOMAIN lastSet
     /\ lastSet[key].replied
     /\ lastSet[key].expiresAt = Nil
    THEN <<lastSet[key]>>
    ELSE <<>>

\* server.HandleCommand(args, c.writer)
ConnCommand(c) ==
  /\ ~crashed /\ pc[c] = "parse"
  /\ LET r == Parse(rd[c])
         a == extractArgs(r.val)
         o == HandleCommand(a.args, now)
     IN  /\ r.st = "ok"
         /\ r.val.Type = Array /\ a.ok
         /\ rd' = [rd EXCEPT ![c] = r.rd]
         /\ log' = [log EXCEPT ![c] = Append(@, r.val)]
         /\ args' = [args EXCEPT ![c] = a.args]
         /\ pc' = [pc EXCEPT ![c] = o.pc]
         /\ out' = [out EXCEPT ![c] = @ \o o.reply]
         /\ expiresAt' = [expiresAt EXCEPT ![c] = o.expiresAt]
         /\ obs' = [obs EXCEPT ![c] =
                      IF o.pc \in {"get_lock", "ttl_lock"}
                        THEN Standing(a.args[2]) ELSE <<>>]
  /\ seen' = [seen EXCEPT ![c] = <<>>]
  /\ UNCHANGED << data, mutex, now, crashed, kv, exists, lastSet >>

HandlerPcs == QueryPcs \cup {"set_lock", "set_cs", "set_reply"}

(***************************************************************************)
(* SetHandler.Handle, from the lock on                                     *)
(***************************************************************************)
\* A mutant of Lock: the lock is taken whoever holds it.
LockWithoutWaiting(c, from, to) ==
  /\ ~crashed /\ pc[c] = from
  /\ mutex' = c
  /\ pc' = [pc EXCEPT ![c] = to]
  /\ UNCHANGED << data, now, crashed, rd, out, args, expiresAt, kv, exists,
                  log, lastSet, obs, seen >>

\* h.server.mutex.Lock()
Lock(c, from, to) ==
  /\ ~crashed /\ pc[c] = from
  /\ mutex = 0
  /\ mutex' = c
  /\ pc' = [pc EXCEPT ![c] = to]
  /\ UNCHANGED << data, now, crashed, rd, out, args, expiresAt, kv, exists,
                  log, lastSet, obs, seen >>

SetLock(c) == Lock(c, "set_lock", "set_cs")

\* h.server.data[key] = KeyValue{...}; h.server.mutex.Unlock()
SetStore(c) ==
  /\ ~crashed /\ pc[c] = "set_cs"
  /\ data' = MapSet(data, Key(c), KeyValue(args[c][3], expiresAt[c]))
  /\ mutex' = 0
  /\ pc' = [pc EXCEPT ![c] = "set_reply"]
  /\ lastSet' = MapSet(lastSet, Key(c),
                  [by |-> c, replied |-> FALSE, args |-> args[c],
                   expiresAt |-> expiresAt[c],
                   prev |-> IF Key(c) \in DOMAIN lastSet
                              THEN lastSet[Key(c)].expiresAt ELSE Nil])
  /\ obs' = [d \in Conns |->
               IF d # c /\ pc[d] \in QueryPcs /\ Key(d) = Key(c)
                 THEN <<>> ELSE obs[d]]
  /\ UNCHANGED << now, crashed, rd, out, args, expiresAt, kv, exists, log, seen >>

\* A mutant of SetReply: the SET that has stored is answered with an Error.
SetReplyWithError(c) ==
  /\ ~crashed /\ pc[c] = "set_reply"
  /\ out' = [out EXCEPT ![c] = Append(@, WriteError(MsgSyntax))]
  /\ pc' = [pc EXCEPT ![c] = "parse"]
  /\ lastSet' = IF Key(c) \in DOMAIN lastSet /\ lastSet[Key(c)].by = c
                  THEN [lastSet EXCEPT ![Key(c)].replied = TRUE]
                  ELSE lastSet
  /\ UNCHANGED << data, mutex, now, crashed, rd, args, expiresAt, kv, exists,
                  log, obs, seen >>

\* return writer.WriteSimpleString("OK")
SetReply(c) ==
  /\ ~crashed /\ pc[c] = "set_reply"
  /\ out' = [out EXCEPT ![c] = Append(@, WriteSimpleString(MsgOK))]
  /\ pc' = [pc EXCEPT ![c] = "parse"]
  /\ lastSet' = IF Key(c) \in DOMAIN lastSet /\ lastSet[Key(c)].by = c
                  THEN [lastSet EXCEPT ![Key(c)].replied = TRUE]
                  ELSE lastSet
  /\ UNCHANGED << data, mutex, now, crashed, rd, args, expiresAt, kv, exists,
                  log, obs, seen >>

(***************************************************************************)
(* GetHandler.Handle, from the lock on                                     *)
(***************************************************************************)
GetLock(c) == Lock(c, "get_lock", "get_cs")

\* A mutant of Query: the critical section ends without Unlock.
QueryKeepingLock(c, from, to) ==
  /\ ~crashed /\ pc[c] = from
  /\ data' = cleanupExpired(data, Key(c), now)
  /\ kv' = [kv EXCEPT ![c] = MapGet(data', Key(c)).kv]
  /\ exists' = [exists EXCEPT ![c] = MapGet(data', Key(c)).exists]
  /\ pc' = [pc EXCEPT ![c] = to]
  /\ seen' = [seen EXCEPT ![c] =
                IF Key(c) \in DOMAIN data
                  THEN <<[at |-> now, set |-> lastSet[Key(c)]]>> ELSE <<>>]
  /\ UNCHANGED << mutex, now, crashed, rd, out, args, expiresAt, log, lastSet, obs >>

\* cleanupExpired(key); kv, exists := data[key]; Unlock()
Query(c, from, to) ==
  /\ ~crashed /\ pc[c] = from
  /\ data' = cleanupExpired(data, Key(c), now)
  /\ kv' = [kv EXCEPT ![c] = MapGet(data', Key(c)).kv]
  /\ exists' = [exists EXCEPT ![c] = MapGet(data', Key(c)).exists]
  /\ mutex' = 0
  /\ pc' = [pc EXCEPT ![c] = to]
  /\ seen' = [seen EXCEPT ![c] =
                IF Key(c) \in DOMAIN data
                  THEN <<[at |-> now, set |-> lastSet[Key(c)]]>> ELSE <<>>]
  /\ UNCHANGED << now, crashed, rd, out, args, expiresAt, log, lastSet, obs >>

GetRead(c) == Query(c, "get_cs", "get_reply")

\* WriteNullBulkString() or WriteBulkString(kv.Value)
GetReply(c) ==
  /\ ~crashed /\ pc[c] = "get_reply"
  /\ out' = [out EXCEPT ![c] =
               Append(@, IF ~exists[c] THEN WriteNullBulkString
                         ELSE WriteBulkString(kv[c].Value))]
  /\ pc' = [pc EXCEPT ![c] = "parse"]
  /\ UNCHANGED << data, mutex, now, crashed, rd, args, expiresAt, kv, exists,
                  log, lastSet, obs, seen >>

(***************************************************************************)
(* TTLHandler.Handle, from the lock on                                     *)
(***************************************************************************)
TTLLock(c) == Lock(c, "ttl_lock", "ttl_cs")

TTLRead(c) == Query(c, "ttl_cs", "ttl_check")

\* What TTLHandler.Handle does with kv and exists once the lock is released,
\* t being the reading of the clock in time.Until: an Integer reply, or
\* (retake) the second lock.
TTLDecision(e, v, t) ==
  IF ~e THEN [retake |-> FALSE, num |-> -2]
  ELSE IF v.ExpiresAt = Nil THEN [retake |-> FALSE, num |-> -1]
  ELSE IF v.ExpiresAt[1] - t <= 0 THEN [retake |-> TRUE, num |-> -2]
  ELSE [retake |-> FALSE, num |-> Seconds(v.ExpiresAt[1] - t)]

\* The checks after the first Unlock, ending in a reply ...
TTLCheckReply(c) ==
  /\ ~crashed /\ pc[c] = "ttl_check"
  /\ ~TTLDecision(exists[c], kv[c], now).retake
  /\ out' = [out EXCEPT ![c] =
               Append(@, WriteInteger(TTLDecision(exists[c], kv[c], now).num))]
  /\ pc' = [pc EXCEPT ![c] = "parse"]
  /\ UNCHANGED << data, mutex, now, crashed, rd, args, expiresAt, kv, exists,
                  log, lastSet, obs, seen >>

\* ... or in remaining <= 0
TTLCheckExpired(c) ==
  /\ ~crashed /\ pc[c] = "ttl_check"
  /\ TTLDecision(exists[c], kv[c], now).retake
  /\ pc' = [pc EXCEPT ![c] = "ttl_lock2"]
  /\ UNCHANGED << data, mutex, now, crashed, rd, out, args, expiresAt, kv,
                  exists, log, lastSet, obs, seen >>

TTLLock2(c) == Lock(c, "ttl_lock2", "ttl_cs2")

\* delete(h.server.data, key); Unlock()
TTLDelete(c) ==
  /\ ~crashed /\ pc[c] = "ttl_cs2"
  /\ data' = MapDelete(data, Key(c))
  /\ mutex' = 0
  /\ pc' = [pc EXCEPT ![c] = "ttl_reply2"]
  /\ UNCHANGED << now, crashed, rd, out, args, expiresAt, kv, exists,
                  log, lastSet, obs, seen >>

\* return writer.WriteInteger(-2)
TTLReplyExpired(c) ==
  /\ ~crashed /\ pc[c] = "ttl_reply2"
  /\ out' = [out EXCEPT ![c] = Append(@, WriteInteger(-2))]
  /\ pc' = [pc EXCEPT ![c] = "parse"]
  /\ UNCHANGED << data, mutex, now, crashed, rd, args, expiresAt, kv, exists,
                  log, lastSet, obs, seen >>

\* Time passes.
Tick ==
  /\ ~crashed
  /\ \E d \in TickSteps :
       now + d <= MaxTicks * (Second \div 2) /\ now' = now + d
  /\ UNCHANGED << data, mutex, crashed, pc, rd, out, args, expiresAt, kv,
                  exists, log, lastSet, obs, seen >>

(***************************************************************************)
(* What the clients send.  A client encodes a command as an array of bulk  *)
(* strings; a script is the segments a connection delivers and whether     *)
(* the client then closes the stream.                                      *)
(***************************************************************************)
RECURSIVE Flatten(_)
Flatten(ss) == IF ss = <<>> THEN <<>> ELSE Head(ss) \o Flatten(Tail(ss))

ClientBulk(s) == <<"$">> \o Itoa(Len(s)) \o CRLF \o s \o CRLF
Cmd(a) ==
  <<"*">> \o Itoa(Len(a)) \o CRLF \o Flatten([i \in 1..Len(a) |-> ClientBulk(a[i])])
Script(net, eof) == [net |-> net, eof |-> eof]

keyK == <<"k">>
keyJ == <<"j">>

\* Scripts of Spec: SET, GET and TTL on one key while time passes.
StoreScripts1 ==
  { Script(<< Cmd(<<SET, keyK, <<"a">>, EX, <<"1">>>>), Cmd(<<SET, keyK, <<"b">>>>),
              Cmd(<<TTL, keyK>>) >>, TRUE),
    Script(<< Cmd(<<SET, keyK, <<"a">>, EX, <<"2">>>>), Cmd(<<GET, keyK>>),
              Cmd(<<TTL, keyK>>) >>, TRUE),
    Script(<< Cmd(<<SET, keyK, <<"a">>, PX, <<"1", "5", "0", "0">>>>),
              Cmd(<<TTL, keyK>>), Cmd(<<SET, keyJ, <<"b">>>>) >>, FALSE) }
StoreScripts2 ==
  { Script(<< Cmd(<<TTL, keyK>>), Cmd(<<GET, keyK>>) >>, TRUE),
    Script(<< Cmd(<<SET, keyK, <<"c">>>>), Cmd(<<TTL, keyK>>) >>, FALSE),
    Script(<< Cmd(<<TTL, keyK>>), <<":", "1", CR, LF>>,
              <<"*", "-", "1", CR, LF>> >>, TRUE) }

\* Scripts of SpecConn: what one connection makes of well-formed, rejected
\* and malformed frames while another connection uses the store.
strX == <<"x">>
ProtocolScripts ==
  { \* ECHO with 0, 1 and 2 arguments, and with the empty string
    Script(<< Cmd(<<ECHO>>), Cmd(<<ECHO, strX>>), Cmd(<<ECHO, strX, <<"y">>>>),
              Cmd(<<ECHO, <<>>>>) >>, TRUE),
    \* an unknown command, the empty command, wrong arities
    Script(<< Cmd(<<<<"f", "o", "o">>>>), Cmd(<<PING>>), Cmd(<<>>),
              Cmd(<<GET>>), Cmd(<<GET, keyK>>) >>, TRUE),
    Script(<< Cmd(<<SET, keyK>>), Cmd(<<TTL>>), Cmd(<<TTL, keyK>>) >>, FALSE),
    \* SET options that fail validation
    Script(<< Cmd(<<SET, keyK, strX, <<"X", "X">>, <<"1">>>>),
              Cmd(<<SET, keyK, strX, EX, <<"0">>>>),
              Cmd(<<SET, keyK, strX, PX, strX>>),
              Cmd(<<SET, keyK, strX, EX, <<"1">>, PX>>),
              Cmd(<<SET, keyK, strX, EX, <<"9">>, PX, <<"5", "0", "0">>>>),
              Cmd(<<TTL, keyK>>) >>, TRUE),
    \* letter case
    Script(<< Cmd(<<<<"s", "e", "t">>, keyK, strX, <<"e", "x">>, <<"1">>>>),
              Cmd(<<<<"S", "e", "T">>, <<"K">>, <<"X">>, <<"p", "X">>, <<"5", "0", "0">>>>),
              Cmd(<<<<"g", "e", "t">>, keyK>>),
              Cmd(<<<<"t", "T", "l">>, <<"K">>>>),
              Cmd(<<<<"p", "i", "n", "g">>>>) >>, TRUE),
    \* values that are no command
    Script(<< <<"+", "P", "I", "N", "G", CR, LF>>, <<":", "1", CR, LF>>,
              <<"*", "2", CR, LF>> \o ClientBulk(GET) \o <<":", "1", CR, LF>>,
              <<"$", "-", "1", CR, LF>>, Cmd(<<PING>>), Cmd(<<>>) >>, TRUE),
    \* frames that do not decode
    Script(<< Cmd(<<PING>>), <<"!", "x", CR, LF>>, Cmd(<<PING>>) >>, TRUE),
    Script(<< <<"*", "x", CR, LF>>, Cmd(<<PING>>) >>, TRUE),
    Script(<< <<"*", "1", CR, LF, "$", "x", CR, LF>>, Cmd(<<PING>>) >>, TRUE),
    Script(<< <<"*", "2", CR, LF>> \o ClientBulk(ECHO) >>, TRUE),
    Script(<< <<"*", "3", CR, LF>> \o ClientBulk(SET) \o ClientBulk(keyK)
                \o <<"$", "5", CR, LF, "a", "b">> >>, TRUE),
    \* negative lengths and counts
    Script(<< Cmd(<<PING>>), <<"$", "-", "2", CR, LF>>, Cmd(<<PING>>) >>, TRUE),
    Script(<< <<"*", "-", "1", CR, LF>>, Cmd(<<PING>>) >>, TRUE) }
OtherScripts ==
  { Script(<< Cmd(<<SET, keyK, <<"a">>>>), Cmd(<<GET, keyK>>) >>, FALSE) }

InitWith(scripts) ==
  /\ data = EmptyMap
  /\ mutex = 0
  /\ now = 0
  /\ crashed = FALSE
  /\ pc = [c \in Conns |-> "parse"]
  /\ rd \in { [c \in Conns |-> Stream(<<>>, s[c].net, s[c].eof)] : s \in scripts }
  /\ out = [c \in Conns |-> <<>>]
  /\ args = [c \in Conns |-> <<>>]
  /\ expiresAt = [c \in Conns |-> Nil]
  /\ kv = [c \in Conns |-> ZeroKeyValue]
  /\ exists = [c \in Conns |-> FALSE]
  /\ log = [c \in Conns |-> <<>>]
  /\ lastSet = [x \in {} |-> <<>>]
  /\ obs = [c \in Conns |-> <<>>]
  /\ seen = [c \in Conns |-> <<>>]

\* NewRedisServer and the connections main accepts
Init == InitWith({ s \in [Conns -> StoreScripts1 \cup StoreScripts2] : s[1] \in StoreScripts1 /\ s[2] \in StoreScripts2 })

Next ==
  \/ \E c \in Conns :
       \/ ConnParseError(c)
       \/ ConnPanic(c)
       \/ ConnReject(c)
       \/ ConnCommand(c)
       \/ SetLock(c)
       \/ SetStore(c)
       \/ SetReply(c)
       \/ GetLock(c)
       \/ GetRead(c)
       \/ GetReply(c)
       \/ TTLLock(c)
       \/ TTLRead(c)
       \/ TTLCheckReply(c)
       \/ TTLCheckExpired(c)
       \/ TTLLock2(c)
       \/ TTLDelete(c)
       \/ TTLReplyExpired(c)
  \/ Tick

Spec == Init /\ [][Next]_vars

InitConn ==
  InitWith({ s \in [Conns -> ProtocolScripts \cup OtherScripts] :
               s[1] \in ProtocolScripts /\ s[2] \in OtherScripts })
SpecConn == InitConn /\ [][Next]_vars

(***************************************************************************)
(* Claims about the store (checked under Spec)                             *)
(***************************************************************************)
\* The command connection c handled last is a TTL, or a GET.
LastWasTTL(c) == args[c] # <<>> /\ CommandName(args[c]) = TTL
LastWasGET(c) == args[c] # <<>> /\ CommandName(args[c]) = GET

(* C1: once a SET of key k without EX/PX has replied OK, and until another *)
(* SET of k is executed, every TTL k dispatched since replies -1 (never    *)
(* -2) and every GET k replies the value set, in every interleaving.       *)
C1_NoExpiryPersistence ==
  \A c \in Conns :
    (pc[c] = "parse" /\ obs[c] # <<>>) =>
      /\ LastWasTTL(c) => Last(out[c]) = WriteInteger(-1)
      /\ LastWasGET(c) => Last(out[c]) = WriteBulkString(obs[c][1].args[3])

\* The entry a query found in the map had an expiry that was due (at or
\* before the time of the query).
FoundDue(c) ==
  /\ seen[c] # <<>>
  /\ seen[c][1].set.expiresAt # Nil
  /\ seen[c][1].at >= seen[c][1].set.expiresAt[1]

(* C2: for an entry stored with expiry time expiresAt, every GET executed  *)
(* at a time >= expiresAt (equality included) replies a null bulk string   *)
(* and every TTL executed at such a time replies -2.                       *)
C2_ExpiryBoundary ==
  \A c \in Conns :
    (pc[c] = "parse" /\ FoundDue(c)) =>
      /\ LastWasGET(c) => Last(out[c]) = WriteNullBulkString
      /\ LastWasTTL(c) => Last(out[c]) = WriteInteger(-2)

(* C4: a SET replaces value and expiry together: the stored entry is       *)
(* always exactly the pair of the SET executed last on its key, and after  *)
(* SET k v1 EX n followed by SET k v2 without option, TTL k replies -1     *)
(* and GET k replies v2.                                                   *)
C4_Overwrite ==
  /\ \A key \in DOMAIN data :
       data[key] = KeyValue(lastSet[key].args[3], lastSet[key].expiresAt)
  /\ \A c \in Conns :
       (pc[c] = "parse" /\ obs[c] # <<>> /\ obs[c][1].prev # Nil) =>
         /\ LastWasTTL(c) => Last(out[c]) = WriteInteger(-1)
         /\ LastWasGET(c) => Last(out[c]) = WriteBulkString(obs[c][1].args[3])

\* The part of C4 about the stored entry alone.
C4_WholeEntry ==
  \A key \in DOMAIN data :
    data[key] = KeyValue(lastSet[key].args[3], lastSet[key].expiresAt)

\* a is SET key value EX n, and the n it gives
IsSetEX(a) == Len(a) = 5 /\ a[4] \in {EX, <<"e", "x">>} /\ Atoi(a[5]).ok
SetEXSeconds(a) == Atoi(a[5]).n

(* C9: a TTL replies -2 when its key is absent or expired, -1 when the key *)
(* has no expiry, and else the whole seconds of expiresAt - now, truncated;*)
(* for a key set with EX n the reply is -2 or an integer of 0..n.          *)
C9_TTLResult ==
  [][\A c \in Conns :
       (pc[c] \in {"ttl_check", "ttl_reply2"} /\ out'[c] # out[c]) =>
         LET r == Last(out'[c])
         IN  /\ ~exists[c] => r = WriteInteger(-2)
             /\ (exists[c] /\ kv[c].ExpiresAt = Nil) => r = WriteInteger(-1)
             /\ (exists[c] /\ kv[c].ExpiresAt # Nil) =>
                   IF kv[c].ExpiresAt[1] <= now
                     THEN r = WriteInteger(-2)
                     ELSE r = WriteInteger((kv[c].ExpiresAt[1] - now) \div Second)
             /\ (seen[c] # <<>> /\ IsSetEX(seen[c][1].set.args)) =>
                   \/ r = WriteInteger(-2)
                   \/ \E n \in 0..SetEXSeconds(seen[c][1].set.args) :
                        r = WriteInteger(n)
    ]_vars

\* A TTL has replied 1 for a key set with EX 2 that had 1.5 s left.
C9_Witness ==
  \E c \in Conns :
    /\ pc[c] = "parse" /\ LastWasTTL(c)
    /\ seen[c] # <<>> /\ IsSetEX(seen[c][1].set.args)
    /\ kv[c].ExpiresAt # Nil /\ kv[c].ExpiresAt[1] - seen[c][1].at = 1500
    /\ Last(out[c]) = WriteInteger(1)

(***************************************************************************)
(* Claims about the connection loop and the dispatcher (checked under      *)
(* SpecConn)                                                               *)
(***************************************************************************)
\* A decoded value that is a command: an array of bulk and simple strings.
IsCommandFrame(v) ==
  /\ v.Type = Array
  /\ \A i \in 1..Len(v.Array) : v.Array[i].Type \in {BulkString, SimpleString}
FrameArgs(v) ==
  [i \in 1..Len(v.Array) |->
     IF v.Array[i].Type = BulkString THEN v.Array[i].Bulk ELSE v.Array[i].Str]
UpperSeq(s) == [i \in 1..Len(s) |-> UpperByte(s[i])]
FrameName(v) == UpperSeq(FrameArgs(v)[1])
IsErrorFrame(f) == f[1] = "-"

(* C3: ECHO with 0 arguments or with 2 or more replies the wrong-arity     *)
(* Error; with exactly 1 argument it replies that argument as a Bulk       *)
(* String, the empty string included.                                      *)
C3_EchoArity ==
  \A c \in Conns : \A i \in 1..Len(out[c]) :
    (IsCommandFrame(log[c][i]) /\ log[c][i].Array # <<>>
       /\ FrameName(log[c][i]) = ECHO) =>
      IF Len(FrameArgs(log[c][i])) = 2
        THEN out[c][i] = WriteBulkString(FrameArgs(log[c][i])[2])
        ELSE out[c][i] = WriteError(MsgEchoArity)

(***************************************************************************)
(* The frame grammar of the protocol, read off a byte sequence b from      *)
(* position p: "frame" with the position after it, "negative" for a        *)
(* length below -1 or a count below 0, "bad" for bytes that are no         *)
(* complete frame.                                                         *)
(***************************************************************************)
RECURSIVE RefFrame(_, _)
RECURSIVE RefElems(_, _, _)
RefElems(b, p, n) ==
  IF n = 0 THEN [kind |-> "frame", end |-> p]
  ELSE LET e == RefFrame(b, p)
       IN  IF e.kind # "frame" THEN e ELSE RefElems(b, e.end, n - 1)
RefFrame(b, p) ==
  IF p > Len(b) THEN [kind |-> "bad", end |-> 0]
  ELSE IF b[p] \in {CR, LF} THEN RefFrame(b, p + 1)
  ELSE LET e == IndexLF(b, p + 1)
           line == IF e > p + 1 /\ b[e - 1] = CR THEN SubSeq(b, p + 1, e - 2)
                   ELSE SubSeq(b, p + 1, e - 1)
           n == Atoi(line)
       IN  IF e = 0 \/ b[p] \notin {"+", "-", ":", "$", "*"}
             THEN [kind |-> "bad", end |-> 0]
           ELSE IF b[p] \in {"+", "-"} THEN [kind |-> "frame", end |-> e + 1]
           ELSE IF ~n.ok THEN [kind |-> "bad", end |-> 0]
           ELSE IF b[p] = ":" THEN [kind |-> "frame", end |-> e + 1]
           ELSE IF b[p] = "$"
             THEN IF n.n = -1 THEN [kind |-> "frame", end |-> e + 1]
                  ELSE IF n.n < -1 THEN [kind |-> "negative", end |-> 0]
                  ELSE IF /\ e + n.n + 2 <= Len(b)
                          /\ b[e + n.n + 1] = CR /\ b[e + n.n + 2] = LF
                    THEN [kind |-> "frame", end |-> e + n.n + 3]
                    ELSE [kind |-> "bad", end |-> 0]
           ELSE IF n.n < 0 THEN [kind |-> "negative", end |-> 0]
           ELSE RefElems(b, e + 1, n.n)

\* All the bytes that a stream still holds
Bytes(r) == r.buf \o Flatten(r.net)
\* Connection c takes bytes off its stream in this step.
Reads(c) == pc[c] = "parse" /\ rd'[c] # rd[c]

\* Response f is one that the frame v can be answered with.
Answers(v, f) ==
  IF v.Type # Array THEN f = WriteError(MsgExpectedArray)
  ELSE IF ~IsCommandFrame(v) THEN f = WriteError(MsgInvalidArgType)
  ELSE IF v.Array = <<>> THEN f = WriteError(MsgEmptyCommand)
  ELSE LET a == FrameArgs(v)
           name == FrameName(v)
       IN  IF name = PING THEN f = WriteSimpleString(MsgPong)
           ELSE IF name = ECHO
             THEN f = WriteError(MsgEchoArity)
                    \/ (Len(a) >= 2 /\ f = WriteBulkString(a[2]))
           ELSE IF name = SET
             THEN f \in { WriteSimpleString(MsgOK), WriteError(MsgSetArity),
                          WriteError(MsgSyntax), WriteError(MsgNotInt) }
           ELSE IF name = GET
             THEN f = WriteError(MsgGetArity) \/ f[1] = "$"
           ELSE IF name = TTL
             THEN f = WriteError(MsgTTLArity) \/ f[1] = ":"
           ELSE f = WriteError(MsgUnknown(name))

(* C5: a command answered with an Error reply leaves the connection open   *)
(* (its loop is back at the parser, the process runs) with its stream at   *)
(* the first byte after the command's frame, and the frame that follows on *)
(* the connection is answered as its command is.                           *)
C5_ErrorsRecoverable ==
  [][\A c \in Conns :
       /\ (out'[c] # out[c] /\ IsErrorFrame(Last(out'[c]))) =>
            /\ pc'[c] = "parse" /\ ~crashed'
            /\ RefFrame(Bytes(rd[c]), 1).kind = "frame" =>
                 Bytes(rd'[c]) = SubSeq(Bytes(rd[c]), RefFrame(Bytes(rd[c]), 1).end,
                                        Len(Bytes(rd[c])))
       /\ \A i \in 1..(Len(out'[c]) - 1) :
            IsErrorFrame(out'[c][i]) => Answers(log'[c][i + 1], out'[c][i + 1])
    ]_vars

\* After the Errors for an unknown command, the empty command and a wrong
\* arity, GET k is answered.
C5_Witness ==
  \E c \in Conns :
    /\ Len(out[c]) = 5
    /\ out[c][1] = WriteError(MsgUnknown(<<"F", "O", "O">>))
    /\ out[c][2] = WriteSimpleString(MsgPong)
    /\ out[c][3] = WriteError(MsgEmptyCommand)
    /\ out[c][4] = WriteError(MsgGetArity)
    /\ out[c][5] = WriteBulkString(<<"a">>)

(* C6: when the bytes of a connection do not decode (unknown type tag,     *)
(* non-numeric length or count, stream closed mid-frame), the loop ends    *)
(* and the connection is closed, no response is written and no command is  *)
(* dispatched.                                                             *)
C6_DecodeErrorsFatal ==
  [][\A c \in Conns :
       (Reads(c) /\ RefFrame(Bytes(rd[c]), 1).kind = "bad") =>
         (pc'[c] = "closed" /\ out' = out /\ data' = data /\ log' = log)
    ]_vars

(* C7: a malformed frame on one connection, a bulk string of length below  *)
(* -1 and an array of negative count included, ends only that connection:  *)
(* the other connections stay where they are and are served, the store is  *)
(* unchanged.                                                              *)
C7_DecodeErrorsIsolated ==
  [][\A c \in Conns :
       (Reads(c) /\ RefFrame(Bytes(rd[c]), 1).kind # "frame") =>
         /\ \A d \in Conns \ {c} : pc'[d] = pc[d]
         /\ ~crashed'
         /\ data' = data
    ]_vars

Canon(a) ==
  [i \in 1..Len(a) |->
     IF i = 1 \/ (UpperSeq(a[1]) = SET /\ i >= 4 /\ i % 2 = 0)
       THEN UpperSeq(a[i]) ELSE a[i]]

(* C10: a command is handled as the command with its name and its SET      *)
(* option keywords in capitals is: the same reply, the same entry to       *)
(* store; keys and values are stored as they were given.                   *)
C10_CaseInsensitive ==
  [][\A c \in Conns :
       /\ (pc[c] = "parse" /\ log'[c] # log[c] /\ IsCommandFrame(Last(log'[c]))) =>
            LET o == HandleCommand(Canon(args'[c]), now)
            IN  /\ pc'[c] = o.pc
                /\ out'[c] = out[c] \o o.reply
                /\ expiresAt'[c] = o.expiresAt
       /\ (pc[c] = "set_cs" /\ pc'[c] = "set_reply") =>
            /\ Key(c) \in DOMAIN data'
            /\ data'[Key(c)] = KeyValue(args[c][3], expiresAt[c])
            /\ \A key \in DOMAIN data \ {Key(c)} :
                 key \in DOMAIN data' /\ data'[key] = data[key]
    ]_vars

\* "set k x ex 1" and "SeT K X pX 500" have been executed: k and K are two
\* keys holding x and X, each with an expiry.
C10_Witness ==
  /\ <<"k">> \in DOMAIN data /\ <<"K">> \in DOMAIN data
  /\ data[<<"k">>].Value = <<"x">> /\ data[<<"K">>].Value = <<"X">>
  /\ data[<<"k">>].ExpiresAt # Nil /\ data[<<"K">>].ExpiresAt # Nil

(***************************************************************************)
(* SET option validation                                                   *)
(***************************************************************************)
\* The verdict on the options of the SET command a, read in pairs from
\* a[i] on: "ok" when every pair is EX or PX with a number above 0, else
\* what the first pair that is not calls for.
RECURSIVE SetVerdict(_, _)
SetVerdict(a, i) ==
  IF i > Len(a) THEN "ok"
  ELSE IF i = Len(a) THEN "syntax"
  ELSE IF UpperSeq(a[i]) \notin {EX, PX} THEN "syntax"
  ELSE IF ~Atoi(a[i + 1]).ok \/ Atoi(a[i + 1]).n <= 0 THEN "notint"
  ELSE SetVerdict(a, i + 2)

\* The step in which connection c decodes a SET with a key and a value.
DecodesSet(c) ==
  /\ pc[c] = "parse" /\ log'[c] # log[c]
  /\ IsCommandFrame(Last(log'[c]))
  /\ Len(args'[c]) >= 3 /\ UpperSeq(args'[c][1]) = SET

(* C11: a SET with a key and a value has its options read in pairs from    *)
(* the 3rd argument: a non-numeric or non-positive EX/PX value replies the *)
(* not-an-integer Error, an unknown keyword or an option without value the *)
(* syntax Error, and the entry is stored and OK replied only when every    *)
(* pair is valid.                                                          *)
C11_SetOptionValidation ==
  [][\A c \in Conns :
       /\ DecodesSet(c) =>
            LET v == SetVerdict(args'[c], 4)
            IN  /\ v = "ok" => (pc'[c] = "set_lock" /\ out'[c] = out[c])
                /\ v = "notint" =>
                     /\ pc'[c] = "parse"
                     /\ out'[c] = Append(out[c], WriteError(MsgNotInt))
                /\ v = "syntax" =>
                     /\ pc'[c] = "parse"
                     /\ out'[c] = Append(out[c], WriteError(MsgSyntax))
                /\ data' = data
       /\ (pc[c] = "set_lock" /\ pc'[c] = "set_cs") =>
            SetVerdict(args[c], 4) = "ok"
       /\ (pc[c] = "set_cs" /\ pc'[c] = "set_reply") =>
            Key(c) \in DOMAIN data' /\ data'[Key(c)].Value = args[c][3]
       /\ (pc[c] = "set_reply" /\ pc'[c] = "parse") =>
            out'[c] = Append(out[c], WriteSimpleString(MsgOK))
       /\ (data' # data /\ pc[c] = "set_cs" /\ pc'[c] # pc[c]) =>
            SetVerdict(args[c], 4) = "ok"
       /\ (out'[c] # out[c] /\ Last(out'[c]) = WriteSimpleString(MsgOK)) =>
            pc[c] = "set_reply"
    ]_vars

\* The five SETs of the script have been answered: an unknown keyword, EX 0,
\* PX x, an option without value, and two valid pairs.
C11_Witness ==
  \E c \in Conns :
    /\ Len(out[c]) >= 5
    /\ out[c][1] = WriteError(MsgSyntax)
    /\ out[c][2] = WriteError(MsgNotInt)
    /\ out[c][3] = WriteError(MsgNotInt)
    /\ out[c][4] = WriteError(MsgSyntax)
    /\ out[c][5] = WriteSimpleString(MsgOK)
    /\ <<"k">> \in DOMAIN data /\ data[<<"k">>].ExpiresAt # Nil

(***************************************************************************)
(* The codec on its own: one connection whose stream is fed frames, the    *)
(* ones RESPWriter encodes (delivered whole) and the ones clients write    *)
(* (delivered whole or in two segments), and whose parser decodes them.    *)
(***************************************************************************)
\* The frames decoded on one connection are at most MaxFrames.
MaxFrames == 2

\* A bulk string that does not fit the reader's buffer with its length line.
BigBulk == [i \in 1..BufSize |-> "a"]

\* The values given to the writer: kind and content.
CodecValues ==
  { RESPValue(SimpleString, <<>>, 0, <<>>, <<>>),
    RESPValue(SimpleString, MsgOK, 0, <<>>, <<>>),
    RESPValue(Error, MsgSyntax, 0, <<>>, <<>>),
    RESPValue(Integer, <<>>, 0, <<>>, <<>>),
    RESPValue(Integer, <<>>, 42, <<>>, <<>>),
    RESPValue(Integer, <<>>, -2, <<>>, <<>>),
    RESPValue(BulkString, <<>>, 0, <<>>, <<>>),
    RESPValue(BulkString, <<>>, 0, <<"a">>, <<>>),
    RESPValue(BulkString, <<>>, 0, <<"a", CR, LF, NUL, "+">>, <<>>),
    RESPValue(BulkString, <<>>, 0, BigBulk, <<>>) }

\* The RESPWriter call that writes the value v
Encode(v) ==
  IF v.Type = SimpleString THEN WriteSimpleString(v.Str)
  ELSE IF v.Type = Error THEN WriteError(v.Str)
  ELSE IF v.Type = Integer THEN WriteInteger(v.Num)
  ELSE WriteBulkString(v.Bulk)

\* Bulk strings as clients write them, to be delivered in segments
SegmentedFrames ==
  { ClientBulk(<<"h", "e", "l", "l", "o">>), ClientBulk(<<>>),
    ClientBulk(<<"a", LF>>) }
\* Frames whose lines end in a bare \n
BareFrames ==
  { <<"+", "O", "K", LF>>, <<"-", "E", LF>>, <<":", "5", LF>>,
    <<"$", "1", LF, "a", CR, LF>>,
    <<"*", "1", LF, "$", "1", CR, LF, "a", CR, LF>> }
\* The null bulk string, alone and with a frame behind it, and a frame of
\* no known type
OtherFrames ==
  { WriteNullBulkString, WriteNullBulkString \o WriteSimpleString(MsgOK),
    <<"!", CR, LF>> }

\* The ways a frame is delivered: whole, or cut in two.
Splits(f) ==
  { <<f>> } \cup { <<SubSeq(f, 1, i), SubSeq(f, i + 1, Len(f))>> : i \in 1..(Len(f) - 1) }

\* The parser waits for bytes and the stream brings segs.
Deliver(c, segs) ==
  /\ pc[c] = "parse" /\ Len(log[c]) < MaxFrames
  /\ Parse(rd[c]).st = "block"
  /\ rd' = [rd EXCEPT ![c].net = @ \o segs]

\* RESPWriter writes a value and flushes; the frame arrives whole.
CodecWrite(c) ==
  /\ \E v \in CodecValues :
       /\ Deliver(c, <<Encode(v)>>)
       /\ out' = [out EXCEPT ![c] = Append(@, Encode(v))]
  /\ UNCHANGED << data, mutex, now, crashed, pc, args, expiresAt, kv, exists,
                  log, lastSet, obs, seen >>

\* A client writes a frame; it arrives whole or in two segments.
CodecSend(c) ==
  /\ \E f \in SegmentedFrames \cup BareFrames \cup OtherFrames :
       \E segs \in (IF f \in SegmentedFrames THEN Splits(f) ELSE { <<f>> }) :
         Deliver(c, segs)
  /\ UNCHANGED << data, mutex, now, crashed, pc, out, args, expiresAt, kv,
                  exists, log, lastSet, obs, seen >>

\* RESPParser.Parse returns a value.
CodecParse(c) ==
  /\ pc[c] = "parse"
  /\ LET r == Parse(rd[c])
     IN  /\ r.st = "ok"
         /\ rd' = [rd EXCEPT ![c] = r.rd]
         /\ log' = [log EXCEPT ![c] = Append(@, r.val)]
  /\ UNCHANGED << data, mutex, now, crashed, pc, out, args, expiresAt, kv,
                  exists, lastSet, obs, seen >>

\* RESPParser.Parse returns an error.
CodecParseError(c) ==
  /\ pc[c] = "parse"
  /\ LET r == Parse(rd[c])
     IN  /\ r.st = "err"
         /\ rd' = [rd EXCEPT ![c] = r.rd]
  /\ pc' = [pc EXCEPT ![c] = "closed"]
  /\ UNCHANGED << data, mutex, now, crashed, out, args, expiresAt, kv, exists,
                  log, lastSet, obs, seen >>

InitCodec == InitWith({ [c \in Conns |-> Script(<<>>, FALSE)] })
NextCodec ==
  \/ CodecWrite(1)
  \/ CodecSend(1)
  \/ CodecParse(1)
  \/ CodecParseError(1)
SpecCodec == InitCodec /\ [][NextCodec]_vars

\* The content of a value of one of the four scalar kinds
Content(v) ==
  IF v.Type \in {SimpleString, Error} THEN v.Str
  ELSE IF v.Type = Integer THEN v.Num
  ELSE v.Bulk

(* C12: for a Bulk String, Simple String, Error or Integer value, the      *)
(* bytes the writer produces, fed to the parser, decode to one value of    *)
(* the same kind and content, and the parser consumes exactly those bytes. *)
C12_RoundTrip ==
  [][\A c \in Conns : \A v \in CodecValues :
       (Reads(c) /\ rd[c] = Stream(<<>>, <<Encode(v)>>, FALSE)) =>
         /\ log'[c] # log[c]
         /\ Last(log'[c]).Type = v.Type
         /\ Content(Last(log'[c])) = Content(v)
         /\ Bytes(rd'[c]) = <<>>
    ]_vars

\* The round trip of the values that fit the reader's buffer whole.
C12_RoundTripInBuffer ==
  [][\A c \in Conns : \A v \in CodecValues :
       (Reads(c) /\ rd[c] = Stream(<<>>, <<Encode(v)>>, FALSE)
          /\ Len(Encode(v)) <= BufSize) =>
         /\ log'[c] # log[c]
         /\ Last(log'[c]).Type = v.Type
         /\ Content(Last(log'[c])) = Content(v)
         /\ Bytes(rd'[c]) = <<>>
    ]_vars

\* For bytes b that begin a bulk string: the declared length, and the
\* payload, the bytes that follow the length line.
BulkLength(b) == Atoi(TrimSuffixCRLF(SubSeq(b, 2, IndexLF(b, 2)))).n
BulkPayload(b) == SubSeq(b, IndexLF(b, 2) + 1, IndexLF(b, 2) + BulkLength(b))
\* The stream of c holds a whole bulk string of declared length N >= 0,
\* its length line ending in \r\n.
HoldsBulk(c) ==
  /\ Bytes(rd[c]) # <<>> /\ Bytes(rd[c])[1] = "$"
  /\ IndexLF(Bytes(rd[c]), 2) > 2 /\ Bytes(rd[c])[IndexLF(Bytes(rd[c]), 2) - 1] = CR
  /\ RefFrame(Bytes(rd[c]), 1).kind = "frame"
  /\ BulkLength(Bytes(rd[c])) >= 0

(* C13: a bulk string of declared length N >= 0 decodes to exactly its N   *)
(* payload bytes and the parser takes exactly N + 2 bytes after the length *)
(* line, whether the stream delivers the frame whole or in segments: the   *)
(* stream is left at the first byte after the frame.                       *)
C13_BulkFraming ==
  [][\A c \in Conns :
       (Reads(c) /\ HoldsBulk(c)) =>
         /\ log'[c] = Append(log[c],
                        RESPValue(BulkString, <<>>, 0, BulkPayload(Bytes(rd[c])), <<>>))
         /\ Bytes(rd'[c]) = SubSeq(Bytes(rd[c]), RefFrame(Bytes(rd[c]), 1).end,
                                   Len(Bytes(rd[c])))
    ]_vars

\* The same for the bulk strings that are delivered whole and fit the buffer.
C13_BulkFramingWhole ==
  [][\A c \in Conns :
       (Reads(c) /\ HoldsBulk(c) /\ rd[c].buf = <<>> /\ Len(rd[c].net) = 1
          /\ Len(Bytes(rd[c])) <= BufSize) =>
         /\ log'[c] = Append(log[c],
                        RESPValue(BulkString, <<>>, 0, BulkPayload(Bytes(rd[c])), <<>>))
         /\ Bytes(rd'[c]) = SubSeq(Bytes(rd[c]), RefFrame(Bytes(rd[c]), 1).end,
                                   Len(Bytes(rd[c])))
    ]_vars

\* The bytes b with a \r put before every \n that has none
RECURSIVE WithCR(_)
WithCR(b) ==
  IF b = <<>> THEN <<>>
  ELSE IF Last(b) = LF /\ (Len(b) = 1 \/ b[Len(b) - 1] # CR)
    THEN WithCR(SubSeq(b, 1, Len(b) - 1)) \o <<CR, LF>>
  ELSE WithCR(SubSeq(b, 1, Len(b) - 1)) \o <<Last(b)>>

\* What RESPParser.Parse makes of the bytes b, delivered whole
Decoded(b) == Parse(Stream(<<>>, <<b>>, FALSE))

(* C14: a line ending in a bare \n is read as the line ending in \r\n is:  *)
(* a simple string, error, integer, length or count sent with a bare \n    *)
(* decodes to the value it decodes to when sent with \r\n.                 *)
C14_BareLineFeed ==
  [][\A c \in Conns : \A f \in BareFrames :
       (Reads(c) /\ rd[c] = Stream(<<>>, <<f>>, FALSE)) =>
         /\ Decoded(WithCR(f)).st = "ok"
         /\ log'[c] = Append(log[c], Decoded(WithCR(f)).val)
         /\ Bytes(rd'[c]) = <<>>
    ]_vars

\* readLine itself: a line ending in \r\n comes back without the \r\n.
C14_CRLFStripped ==
  \A f \in BareFrames :
    LET l == readLine(Stream(<<>>, <<Tail(WithCR(f))>>, FALSE))
        e == IndexLF(WithCR(f), 1)
    IN  l.st = "ok" /\ l.line = SubSeq(WithCR(f), 2, e - 2)

\* The stream of c begins with a bulk string of declared length -1.
HoldsNullBulk(c) ==
  /\ Len(Bytes(rd[c])) >= Len(WriteNullBulkString)
  /\ SubSeq(Bytes(rd[c]), 1, Len(WriteNullBulkString)) = WriteNullBulkString

(* C15: a bulk string of declared length -1 decodes to a null bulk string  *)
(* and no byte after its length line is consumed, and the decoded value    *)
(* differs from the one a bulk string of declared length 0 decodes to.     *)
C15_NullVersusEmpty ==
  [][\A c \in Conns :
       (Reads(c) /\ HoldsNullBulk(c)) =>
         /\ log'[c] # log[c]
         /\ Last(log'[c]).Type = BulkString
         /\ Bytes(rd'[c]) = SubSeq(Bytes(rd[c]), Len(WriteNullBulkString) + 1,
                                   Len(Bytes(rd[c])))
         /\ Last(log'[c]) # Decoded(ClientBulk(<<>>)).val
    ]_vars

\* The part of C15 about the bytes consumed.
C15_NullConsumesNothing ==
  [][\A c \in Conns :
       (Reads(c) /\ HoldsNullBulk(c)) =>
         /\ log'[c] # log[c]
         /\ Last(log'[c]).Type = BulkString /\ Last(log'[c]).Bulk = <<>>
         /\ Bytes(rd'[c]) = SubSeq(Bytes(rd[c]), Len(WriteNullBulkString) + 1,
                                   Len(Bytes(rd[c])))
    ]_vars

(***************************************************************************)
(* Frames that are no command, and the frame of the commands               *)
(***************************************************************************)
\* Connection c decodes a top-level value in this step.
Decodes(c) == pc[c] = "parse" /\ log'[c] # log[c]

\* No handler is entered by c, nothing of the store or its lock changes,
\* and the loop of c is back at the parser after the one reply f.
RejectedWith(c, f) ==
  /\ out'[c] = Append(out[c], f)
  /\ pc'[c] = "parse" /\ ~crashed'
  /\ data' = data /\ mutex' = mutex
  /\ args' = args

(* C16: a decoded top-level value that is no Array is answered Error       *)
(* "expected array", an Array with an element that is neither Bulk String  *)
(* nor Simple String Error "invalid argument type", an Array of no element *)
(* Error "empty command"; no handler runs, the store is unchanged and the  *)
(* loop goes on.                                                           *)
C16_NonCommandRejected ==
  [][\A c \in Conns :
       Decodes(c) =>
         LET v == Last(log'[c])
         IN  /\ v.Type # Array => RejectedWith(c, WriteError(MsgExpectedArray))
             /\ (v.Type = Array /\ ~IsCommandFrame(v)) =>
                  RejectedWith(c, WriteError(MsgInvalidArgType))
             /\ (v.Type = Array /\ v.Array = <<>>) =>
                  /\ out'[c] = Append(out[c], WriteError(MsgEmptyCommand))
                  /\ pc'[c] = "parse" /\ ~crashed'
                  /\ data' = data /\ mutex' = mutex
    ]_vars

\* A simple string, an integer, an array holding an integer, a null bulk
\* string and the empty array have been rejected, PING answered in between.
C16_Witness ==
  \E c \in Conns :
    /\ Len(out[c]) = 6 /\ pc[c] = "parse"
    /\ out[c][1] = WriteError(MsgExpectedArray)
    /\ out[c][2] = WriteError(MsgExpectedArray)
    /\ out[c][3] = WriteError(MsgInvalidArgType)
    /\ out[c][4] = WriteError(MsgExpectedArray)
    /\ out[c][5] = WriteSimpleString(MsgPong)
    /\ out[c][6] = WriteError(MsgEmptyCommand)

\* The entry of key is not the same after the step as before.
Touched(key) == key \notin DOMAIN data' \/ data'[key] # data[key]
\* The entry of key has an expiry that the clock has reached.
Expired(key) == data[key].ExpiresAt # Nil /\ data[key].ExpiresAt[1] <= now

(* C17: an entry is removed only by a GET or TTL of its own key that finds *)
(* it expired; no command on another key, and no PING or ECHO, removes or  *)
(* modifies it; an entry that has not expired is never removed.            *)
C17_LazyExpiryFrame ==
  [][\A key \in DOMAIN data :
       /\ Touched(key) =>
            \E c \in Conns :
              /\ pc[c] \in {"set_cs", "get_cs", "ttl_cs", "ttl_cs2"}
              /\ pc'[c] # pc[c] /\ Key(c) = key
       /\ key \notin DOMAIN data' =>
            /\ Expired(key)
            /\ \E c \in Conns :
                 /\ pc[c] \in {"get_cs", "ttl_cs", "ttl_cs2"}
                 /\ pc'[c] # pc[c] /\ Key(c) = key
    ]_vars

\* The part of C17 about the other commands: an entry changes only in a
\* critical section of a SET, GET or TTL of its own key, and stays in the
\* map, expired or not, through every other step.
C17_OtherCommandsLeaveEntry ==
  [][\A key \in DOMAIN data :
       Touched(key) =>
         \E c \in Conns :
           /\ pc[c] \in {"set_cs", "get_cs", "ttl_cs", "ttl_cs2"}
           /\ pc'[c] # pc[c] /\ Key(c) = key
    ]_vars

(* C18: a command that is answered with an Error (unknown or empty         *)
(* command, wrong arity, SET syntax error or value not an integer) leaves  *)
(* the whole store as it was: the Error is written before any handler      *)
(* touches the store or its lock, also by a SET whose first option pair    *)
(* was valid.                                                              *)
C18_StoreUnchangedOnError ==
  [][\A c \in Conns :
       (out'[c] # out[c] /\ IsErrorFrame(Last(out'[c]))) =>
         /\ Decodes(c) /\ pc'[c] = "parse"
         /\ data' = data /\ mutex' = mutex
    ]_vars

\* SET k x XX 1, SET k x EX 0, SET k x PX x and SET k x EX 1 PX have been
\* answered with Errors, and k still holds what the other connection set.
C18_Witness ==
  \E c \in Conns :
    /\ Len(out[c]) = 4
    /\ \A i \in 1..4 : IsErrorFrame(out[c][i])
    /\ out[c][4] = WriteError(MsgSyntax)
    /\ Len(log[c][4].Array) = 6
    /\ data = MapSet(EmptyMap, keyK, KeyValue(<<"a">>, Nil))

(***************************************************************************)
(* The store lock                                                          *)
(***************************************************************************)
\* The positions between a Lock and its Unlock, and the ones at a Lock
CriticalPcs == {"set_cs", "get_cs", "ttl_cs", "ttl_cs2"}
LockPcs == {"set_lock", "get_lock", "ttl_lock", "ttl_lock2"}

\* At most one connection is between a Lock and its Unlock, and it is the
\* one that holds the lock.
OneInside ==
  /\ \A c, d \in Conns :
       (pc[c] \in CriticalPcs /\ pc[d] \in CriticalPcs) => c = d
  /\ \A c \in Conns : pc[c] \in CriticalPcs => mutex = c
  /\ (~crashed /\ mutex # 0) => pc[mutex] \in CriticalPcs

\* Every write and delete of the map, and every read of it into a
\* handler's kv and exists (the expiry check of cleanupExpired with it), is
\* a step of the connection that holds the lock, inside its critical
\* section.
AccessUnderLock ==
  /\ data' # data =>
       /\ mutex \in Conns /\ pc[mutex] \in CriticalPcs
       /\ pc'[mutex] # pc[mutex]
  /\ \A c \in Conns :
       (kv'[c] # kv[c] \/ exists'[c] # exists[c]) =>
         mutex = c /\ pc[c] \in {"get_cs", "ttl_cs"}

(* C19: at most one connection is inside a critical section of the store   *)
(* at a time, and every read, write and delete of the map (the expiry      *)
(* check and both deletes of the TTL handler with them) is done by the     *)
(* connection that holds the lock.                                         *)
C19_MutualExclusion == []OneInside /\ [][AccessUnderLock]_vars

\* Connection 1 is in the second critical section of its TTL while
\* connection 2 waits at its Lock.
C19_Witness ==
  /\ pc[1] = "ttl_cs2" /\ mutex = 1
  /\ pc[2] \in LockPcs

(***************************************************************************)
(* Progress.  Connections that issue SET, GET and TTL, under the           *)
(* scheduling of the Go runtime: a handler that can take a step takes one  *)
(* in the end (weak fairness of the handler steps of each connection), and *)
(* a handler waiting in Lock gets the lock in the end when it is free      *)
(* again and again (sync.Mutex hands a starving waiter the lock: strong    *)
(* fairness of the Lock steps).  Clients may send, and time may pass, or   *)
(* not.                                                                    *)
(***************************************************************************)
LockScripts1 ==
  { Script(<< Cmd(<<SET, keyK, <<"a">>, PX, <<"5", "0", "0">>>>),
              Cmd(<<TTL, keyK>>), Cmd(<<GET, keyK>>) >>, TRUE) }
LockScripts2 ==
  { Script(<< Cmd(<<TTL, keyK>>), Cmd(<<SET, keyK, <<"b">>>>) >>, FALSE) }

InitLock ==
  InitWith({ s \in [Conns -> LockScripts1 \cup LockScripts2] :
               s[1] \in LockScripts1 /\ s[2] \in LockScripts2 })

\* The steps of the handlers of connection c other than Lock, and their
\* Lock steps
HandlerStep(c) ==
  \/ SetStore(c)
  \/ SetReply(c)
  \/ GetRead(c)
  \/ GetReply(c)
  \/ TTLRead(c)
  \/ TTLCheckReply(c)
  \/ TTLCheckExpired(c)
  \/ TTLDelete(c)
  \/ TTLReplyExpired(c)
LockStep(c) ==
  \/ SetLock(c)
  \/ GetLock(c)
  \/ TTLLock(c)
  \/ TTLLock2(c)

NextLock ==
  \/ \E c \in Conns : ConnParseError(c)
  \/ \E c \in Conns : ConnCommand(c)
  \/ \E c \in Conns : HandlerStep(c)
  \/ \E c \in Conns : LockStep(c)
  \/ Tick
Fairness == \A c \in Conns : WF_vars(HandlerStep(c)) /\ SF_vars(LockStep(c))
SpecLock == InitLock /\ [][NextLock]_vars /\ Fairness

(* C20: every Lock of a handler is followed by its Unlock, so under fair   *)
(* scheduling no connection waits forever at a Lock and every dispatched   *)
(* SET, GET and TTL writes its response in the end.                        *)
C20_EventualResponse ==
  \A c \in Conns :
    /\ (mutex = c) ~> (mutex # c)
    /\ (pc[c] \in LockPcs) ~> (pc[c] \in CriticalPcs)
    /\ \A n \in 0..2 :
         (pc[c] \in HandlerPcs /\ Len(out[c]) = n) ~>
           (pc[c] = "parse" /\ Len(out[c]) = n + 1)

\* Every command of both connections has been answered (a TTL through its
\* second critical section) and the lock is free.
C20_Witness ==
  /\ Len(out[1]) = 3 /\ Len(out[2]) = 2
  /\ out[1][2] = WriteInteger(-2)
  /\ \A c \in Conns : pc[c] \in {"parse", "closed"}
  /\ mutex = 0
=============================================================================
